---------------------------- MODULE Spec2Model ----------------------------
(***************************************************************************)
(* Model of mysite/search_engine/helps.py: the coroutine service that      *)
(* enriches search hits with author data (BookCoroutineService) and the    *)
(* per-term driver around it (ElasticSearchBookService.run_query_list).    *)
(*                                                                         *)
(* One asyncio event loop runs per batch.  Its tasks (one per record) and  *)
(* the scheduler coroutine interleave at their suspension points; the      *)
(* jobs handed to the loop's default executor run on pool threads and      *)
(* interleave with everything.                                             *)
(***************************************************************************)
EXTENDS Integers, Sequences, FiniteSets, TLC

\* ------------------------------------------------------------------ bounds
MaxRecords == 3     \* longest record list handed to call_author_many directly
MaxConcur  == 2     \* largest concur_req handed to call_author_many directly
MaxTerms   == 2     \* longest query_list of an ElasticSearchBookService
MaxSize    == 2     \* largest size (hits per term) of an ElasticSearchBookService

\* ------------------------------------------------------- program constants
DEFAULT_CONCUR_REQ == 5
MAX_CONCUR_REQ     == 1000

QueryTerms == {"mystery", "romance"}

\* HTTPStatus = Enum('Status', 'ok not_found error')
HTTPStatus == {"ok", "not_found", "error"}

VARIABLES
    query_list,   \* ElasticSearchBookService.query_list
    size,         \* ElasticSearchBookService.size
    result,       \* run_query_list: result, a list of references into docs
    qi,           \* run_query_list: position of the for loop in query_list
    rpc,          \* run_query_list: "none" (no such frame), "constructed",
                  \*   "execute", "call_author_many", "returned", "raised"
    docs,         \* heap of hit lists: docs[b] is the records_list of batch b,
                  \*   docs[b][i] the _source mapping of its i-th record
    qry,          \* call_author_many: qry
    verbose,      \* call_author_many: verbose
    concur_req,   \* call_author_many: concur_req
    loop,         \* event loop of the batch: "none", "running", "stopped", "closed"
    semaphore,    \* asyncio.Semaphore._value
    counter,      \* schedule_services: counter
    niter,        \* schedule_services: iterations of the for loop done
    spc,          \* schedule_services: "none", "waiting", "returned", "raised"
    task,         \* task[i]: the retrieve_author_details task of record i: where
                  \*   it is (pc), its local data, what its POST came back
                  \*   with (resp), the exception it caught from call_service
                  \*   (exc), what it returned or raised (result), the
                  \*   __cause__ of what it raised (cause), and the number of
                  \*   POSTs it has sent (posts)
    done,         \* as_completed: queue of finished tasks, in completion order
    escaped,      \* class of the exception that left schedule_services, or "none"
    jobs          \* default executor: jobs submitted and not yet finished, each
                  \*   with the line of add_additional_data_to_record it is at

vars == <<query_list, size, result, qi, rpc, docs, qry, verbose, concur_req,
          loop, semaphore, counter, niter, spc, task, done, escaped, jobs>>

svcVars   == <<query_list, size>>
batchArgs == <<qry, verbose, concur_req>>

\* ----------------------------------------------------------------- helpers
\* d[k] = v on a Python dict
SetItem(d, k, v) == [x \in (DOMAIN d) \cup {k} |-> IF x = k THEN v ELSE d[x]]

\* one hit of the search response: book_details['_source']
Source(b, i) == [k \in {"id", "summary"} |-> IF k = "id" THEN 10 * b + i ELSE "text"]

\* response.to_dict()['hits']['hits'] with n hits
Hits(b, n) == [i \in 1..n |-> Source(b, i)]

\* retrieve_author_details, lines 70-71: data = {'book_id': book_id}
Payload(book_details) == [k \in {"book_id"} |-> book_details["id"]]

\* collections.Counter()
EmptyCounter == [s \in HTTPStatus |-> 0]

\* ------------------------------------------------------ the remote service
\* What one POST can come back with: a connection failure, another client
\* failure, or a response with a status.
\* reason is the strerror of a failure or the reason phrase of a response.
PostOutcomes ==
    { [kind |-> "ClientConnectorError", status |-> 0, reason |-> "Connection refused",
       headers |-> "none"],
      [kind |-> "ClientError", status |-> 0, reason |-> "Server disconnected",
       headers |-> "none"],
      [kind |-> "response", status |-> 200, reason |-> "OK", headers |-> "h200"],
      [kind |-> "response", status |-> 404, reason |-> "Not Found", headers |-> "h404"] }

NoOutcome == [kind |-> "none", status |-> 0, reason |-> "", headers |-> "none"]

\* What response.json() can come back with: a body that does not parse, a
\* body with an author, a body without one.
JsonOutcomes ==
    { [parses |-> FALSE, data |-> [k \in {"message"} |-> "garbled"]],
      [parses |-> TRUE,  data |-> [k \in {"author"} |-> "Ann"]],
      [parses |-> TRUE,  data |-> [k \in {"message"} |-> "unknown"]] }

\* An exception as call_service raises it: its class, the code and headers
\* it carries, its message (a prefix and a text), the exception it wraps as
\* its argument (args[0]), its __cause__ (set by raise ... from only) and
\* its __context__ (the exception being handled when it was raised).
NoExc == [cls |-> "none", code |-> 0, message |-> <<"", "">>, headers |-> "none",
          wraps |-> "none", cause |-> "none", context |-> "none"]

\* call_service, lines 49-61: the exception it raises when the POST comes
\* back with o, or NoExc.  Line 54 raises Exception(message), line 57
\* Exception(e), line 61 a ClientResponseError built from keywords alone, as
\* the library's own raise_for_status did when this was written.
call_service_raise(o) ==
    IF o.kind = "ClientConnectorError"
    THEN [NoExc EXCEPT !.cls = "Exception",
                       !.message = <<"call author aws service: ", o.reason>>,
                       !.context = o.kind]
    ELSE IF o.kind # "response"
    THEN [NoExc EXCEPT !.cls = "Exception", !.wraps = o.kind, !.context = o.kind]
    ELSE IF o.status # 200
    THEN [NoExc EXCEPT !.cls = "ClientResponseError", !.code = o.status,
                       !.message = <<"", o.reason>>, !.headers = o.headers]
    ELSE NoExc

\* call_service, up to the response: the exception class it raises, or "none"
call_service_post(o) == call_service_raise(o).cls

\* call_service, reading the body: the exception class it raises, or "none"
call_service_json(j) == IF j.parses THEN "none" ELSE "ValueError"

\* retrieve_author_details, the except clauses: what an exception of class
\* exc raised inside the with block turns into
except_clauses(exc) ==
    IF exc = "HTTPNotFound"
    THEN [pc |-> "returned", result |-> "not_found"]
    ELSE [pc |-> "raised", result |-> "Exception"]

\* a semaphore that lets every task in
acquire_ready_always(value) == TRUE

\* Semaphore.acquire: whether a slot can be taken
acquire_ready(value) == value > 0

\* a with block that forgets to give the slot back
release_forgotten(value) == value

\* Semaphore.release, on leaving the with block
release(value) == value + 1

\* exc.__cause__ of an exception raised without "from"
NoCause == [cls |-> "none", args |-> <<>>]

\* schedule_services, lines 108-111: whether the extraction of error_msg
\* raises.  exc.__cause__.args[0] on a cause without args is an IndexError,
\* which line 110 catches; on no cause at all (None) it is an
\* AttributeError, which nothing catches.
error_msg_raises(cause) == cause.cls = "none"

\* schedule_services, lines 108-111: error_msg, the first arg of the cause
\* or else the name of its class
error_msg(cause) == IF Len(cause.args) = 0 THEN cause.cls ELSE cause.args[1]

\* schedule_services, lines 103-117: what the for loop does with an
\* exception of class exc and cause cause raised by a task: the status it
\* is tallied under, or "propagate" when an exception leaves the loop
except_FetchError(exc, cause) ==
    IF exc # "FetchError" THEN "propagate"
    ELSE IF error_msg_raises(cause) THEN "propagate"
    ELSE "error"

\* schedule_services, lines 103-111: the class of the exception that leaves
\* the for loop
escaping(exc, cause) == IF exc = "FetchError" THEN "AttributeError" ELSE exc

\* a counter that is set, not added to
increment_overwrites(c, status) == [c EXCEPT ![status] = 1]

\* schedule_services, line 118: counter[status] += 1
increment(c, status) == [c EXCEPT ![status] = @ + 1]

InFlight == {i \in DOMAIN task : task[i].pc \in {"post", "json"}}

\* retrieve_author_details has no suspension point between lines 85 and 88:
\* while a task is there, the event-loop thread runs nothing else
LoopThreadFree == \A i \in DOMAIN task : task[i].pc # "submitted"

Batch == Len(docs)

\* ---------------------------------------------------------------- actions
\* call_author_many up to the first suspension of schedule_services: a new
\* loop, the counter, the semaphore, one task per record.  An empty list
\* makes schedule_services return at once.
StartBatch(list, q, v, c) ==
    /\ docs' = Append(docs, list)
    /\ qry' = q
    /\ verbose' = v
    /\ concur_req' = c
    /\ counter' = EmptyCounter
    /\ semaphore' = c
    /\ niter' = 0
    /\ task' = [i \in 1..Len(list) |->
                   [pc |-> "created", data |-> Payload(list[i]), resp |-> NoOutcome,
                    result |-> "none", cause |-> NoCause, exc |-> NoExc,
                    posts |-> 0]]
    /\ done' = <<>>
    /\ escaped' = "none"
    /\ spc' = IF Len(list) = 0 THEN "returned" ELSE "waiting"
    /\ loop' = "running"

\* call_author_many called by a client of BookCoroutineService
call_author_many ==
    /\ rpc = "none"
    /\ loop = "none"
    /\ \E n \in 0..MaxRecords, q \in QueryTerms, v \in {0, 1}, c \in 1..MaxConcur :
           StartBatch(Hits(Batch + 1, n), q, v, c)
    /\ UNCHANGED <<svcVars, result, qi, rpc, jobs>>

\* run_query_list after call_author_many has returned for batch b (inFrame:
\* the call came from run_query_list): the hit list is appended, and the for
\* loop goes to the next term or the method returns result.
Resume(inFrame, b) ==
    IF inFrame
    THEN /\ result' = Append(result, b)
         /\ qi' = qi + 1
         /\ rpc' = IF qi + 1 > Len(query_list) THEN "returned" ELSE "execute"
    ELSE UNCHANGED <<result, qi, rpc>>

\* retrieve_author_details, line 74: the task takes a slot and call_service
\* sends the POST
acquire(i) ==
    /\ loop = "running"
    /\ LoopThreadFree
    /\ task[i].pc = "created"
    /\ acquire_ready(semaphore)
    /\ semaphore' = semaphore - 1
    /\ task' = [task EXCEPT ![i].pc = "post", ![i].posts = @ + 1]
    /\ UNCHANGED <<svcVars, result, qi, rpc, docs, batchArgs, loop, counter,
                   niter, spc, done, escaped, jobs>>

\* call_service, lines 49-61: the POST comes back with o.  A failure leaves
\* the with block (the slot is released) and goes through the except
\* clauses of retrieve_author_details; a 200 goes on to read the body.
post_done(i, o) ==
    /\ loop = "running"
    /\ LoopThreadFree
    /\ task[i].pc = "post"
    /\ LET exc == call_service_post(o) IN
       IF exc = "none"
       THEN /\ task' = [task EXCEPT ![i].pc = "json", ![i].resp = o]
            /\ UNCHANGED <<semaphore, done>>
       ELSE /\ semaphore' = release(semaphore)
            /\ task' = [task EXCEPT ![i].pc = except_clauses(exc).pc,
                                    ![i].result = except_clauses(exc).result,
                                    ![i].resp = o,
                                    ![i].exc = call_service_raise(o)]
            /\ done' = Append(done, i)
    /\ UNCHANGED <<svcVars, result, qi, rpc, docs, batchArgs, loop, counter,
                   niter, spc, escaped, jobs>>

\* call_service, lines 63-64, and retrieve_author_details, lines 75-85: the
\* body comes back with j.  The with block is left (the slot is released);
\* on success the merge is handed to the executor, whose thread may run it
\* before the task goes on.
json_done(i, j) ==
    /\ loop = "running"
    /\ LoopThreadFree
    /\ task[i].pc = "json"
    /\ semaphore' = release(semaphore)
    /\ LET exc == call_service_json(j) IN
       IF exc = "none"
       THEN /\ jobs' = jobs \cup {[b |-> Batch, i |-> i, data |-> j.data,
                                   qry |-> qry, line |-> 32]}
            /\ task' = [task EXCEPT ![i].pc = "submitted", ![i].data = j.data]
            /\ UNCHANGED done
       ELSE /\ task' = [task EXCEPT ![i].pc = except_clauses(exc).pc,
                                    ![i].result = except_clauses(exc).result,
                                    ![i].exc = [NoExc EXCEPT !.cls = exc]]
            /\ done' = Append(done, i)
            /\ UNCHANGED jobs
    /\ UNCHANGED <<svcVars, result, qi, rpc, docs, batchArgs, loop, counter,
                   niter, spc, escaped>>

\* retrieve_author_details, lines 86-88: the task returns Result(ok, ...)
\* without waiting for the merge
return_Result(i) ==
    /\ loop = "running"
    /\ task[i].pc = "submitted"
    /\ task' = [task EXCEPT ![i].pc = "returned", ![i].result = "ok"]
    /\ done' = Append(done, i)
    /\ UNCHANGED <<svcVars, result, qi, rpc, docs, batchArgs, loop, semaphore,
                   counter, niter, spc, escaped, jobs>>

\* schedule_services, lines 102-119: one turn of the for loop on the first
\* finished task.  A task that raised anything but FetchError ends
\* schedule_services with that exception; after the last task the counter
\* is returned.  The loop goes on running until run_until_complete sees it.
tally ==
    /\ loop = "running"
    /\ LoopThreadFree
    /\ spc = "waiting"
    /\ done # <<>>
    /\ LET t == task[Head(done)]
           status == IF t.pc = "raised" THEN except_FetchError(t.result, t.cause)
                                        ELSE t.result
       IN  IF status = "propagate"
           THEN /\ spc' = "raised"
                /\ escaped' = escaping(t.result, t.cause)
                /\ UNCHANGED <<counter, niter>>
           ELSE /\ counter' = increment(counter, status)
                /\ niter' = niter + 1
                /\ spc' = IF niter + 1 = Len(task) THEN "returned" ELSE spc
                /\ UNCHANGED escaped
    /\ done' = Tail(done)
    /\ UNCHANGED <<svcVars, result, qi, rpc, docs, batchArgs, loop, semaphore,
                   task, jobs>>

\* call_author_many, lines 126-127, and run_query_list, lines 168-169: the
\* callback that schedule_services left behind stops the loop.  When it
\* raised, run_until_complete raises the same to the caller and loop.close()
\* is skipped; when it returned, the loop is closed and the caller goes on.
run_until_complete ==
    /\ loop = "running"
    /\ LoopThreadFree
    /\ spc \in {"returned", "raised"}
    /\ IF spc = "raised"
       THEN /\ loop' = "stopped"
            /\ rpc' = IF rpc = "call_author_many" THEN "raised" ELSE rpc
            /\ UNCHANGED <<result, qi>>
       ELSE /\ loop' = "closed"
            /\ Resume(rpc = "call_author_many", Batch)
    /\ UNCHANGED <<svcVars, docs, batchArgs, semaphore, counter, niter, spc,
                   task, done, escaped, jobs>>

\* add_additional_data_to_record, line 32: data['author'] is a KeyError when
\* the data has no author, before anything is written
data_KeyError(data) == "author" \notin DOMAIN data

\* a merge whose stores replace the record by the new field
add_additional_data_replacing(data, q, book_details, line) ==
    IF line = 32 THEN [k \in {"author"} |-> data["author"]]
                 ELSE [k \in {"query"} |-> q]

\* add_additional_data_to_record: what the store of the given line (32 or
\* 33) makes of the record
add_additional_data_to_record(data, q, book_details, line) ==
    IF line = 32 THEN SetItem(book_details, "author", data["author"])
                 ELSE SetItem(book_details, "query", q)

\* A pool thread runs line 32 of a submitted job.  A KeyError stays in the
\* job's future, which nobody reads, and the record is left as it was.
executor_author(job) ==
    /\ job \in jobs
    /\ job.line = 32
    /\ IF data_KeyError(job.data)
       THEN /\ jobs' = jobs \ {job}
            /\ UNCHANGED docs
       ELSE /\ docs' = [docs EXCEPT ![job.b][job.i] =
                          add_additional_data_to_record(job.data, job.qry, @, 32)]
            /\ jobs' = (jobs \ {job}) \cup {[job EXCEPT !.line = 33]}
    /\ UNCHANGED <<svcVars, result, qi, rpc, batchArgs, loop, semaphore,
                   counter, niter, spc, task, done, escaped>>

\* The pool thread runs line 33 of the job, and the job is finished.
executor_query(job) ==
    /\ job \in jobs
    /\ job.line = 33
    /\ docs' = [docs EXCEPT ![job.b][job.i] =
                    add_additional_data_to_record(job.data, job.qry, @, 33)]
    /\ jobs' = jobs \ {job}
    /\ UNCHANGED <<svcVars, result, qi, rpc, batchArgs, loop, semaphore,
                   counter, niter, spc, task, done, escaped>>

\* run_query_list, lines 148-152: result = [] and the head of the for loop
run_query_list ==
    /\ rpc = "constructed"
    /\ result' = <<>>
    /\ qi' = 1
    /\ rpc' = IF Len(query_list) = 0 THEN "returned" ELSE "execute"
    /\ UNCHANGED <<svcVars, docs, batchArgs, loop, semaphore, counter, niter,
                   spc, task, done, escaped, jobs>>

\* run_query_list, lines 155-167: the search for the current term comes back
\* with at most size hits and call_author_many is called on them, with
\* DEFAULT_CONCUR_REQ in the place of verbose and MAX_CONCUR_REQ in the place
\* of concur_req.
execute ==
    /\ rpc = "execute"
    /\ \E n \in 0..size :
          /\ StartBatch(Hits(Batch + 1, n), query_list[qi], DEFAULT_CONCUR_REQ,
                        MAX_CONCUR_REQ)
          /\ rpc' = "call_author_many"
          /\ UNCHANGED <<result, qi>>
    /\ UNCHANGED <<svcVars, jobs>>

\* schedule_services is generic in next_calling_service.  What a task of
\* some other service can end with: a Result of any status, a FetchError
\* (raised without a cause, from a cause without args, from a cause with
\* args), or another exception.
ServiceOutcomes ==
    { [pc |-> "returned", result |-> s, cause |-> NoCause] : s \in HTTPStatus }
    \cup { [pc |-> "raised", result |-> "FetchError", cause |-> c] :
              c \in { NoCause,
                      [cls |-> "KeyError", args |-> <<>>],
                      [cls |-> "ValueError", args |-> <<"not json">>] } }
    \cup { [pc |-> "raised", result |-> "Exception", cause |-> NoCause] }

\* a client runs schedule_services, the way call_author_many does, with a
\* next_calling_service of its own
call_service_many ==
    /\ rpc = "none"
    /\ loop = "none"
    /\ \E n \in 0..MaxRecords, q \in QueryTerms, v \in {0, 1}, c \in 1..MaxConcur :
           StartBatch(Hits(Batch + 1, n), q, v, c)
    /\ UNCHANGED <<svcVars, result, qi, rpc, jobs>>

\* schedule_services, lines 96-97 and 104: the task of record i, of that
\* other service, ends with out and joins the queue of as_completed
service_done(i, out) ==
    /\ loop = "running"
    /\ task[i].pc = "created"
    /\ task' = [task EXCEPT ![i].pc = out.pc, ![i].result = out.result,
                            ![i].cause = out.cause]
    /\ done' = Append(done, i)
    /\ UNCHANGED <<svcVars, result, qi, rpc, docs, batchArgs, loop, semaphore,
                   counter, niter, spc, escaped, jobs>>

Init ==
    /\ query_list = <<>>
    /\ size = 0
    /\ result = <<>>
    /\ qi = 0
    /\ rpc = "none"
    /\ docs = <<>>
    /\ qry = "mystery"
    /\ verbose = 0
    /\ concur_req = 0
    /\ loop = "none"
    /\ semaphore = 0
    /\ counter = EmptyCounter
    /\ niter = 0
    /\ spc = "none"
    /\ task = <<>>
    /\ done = <<>>
    /\ escaped = "none"
    /\ jobs = {}

\* ElasticSearchBookService.__init__
InitQ ==
    /\ query_list \in UNION {[1..n -> QueryTerms] : n \in 0..MaxTerms}
    /\ size \in 0..MaxSize
    /\ result = <<>>
    /\ qi = 0
    /\ rpc = "constructed"
    /\ docs = <<>>
    /\ qry = "mystery"
    /\ verbose = 0
    /\ concur_req = 0
    /\ loop = "none"
    /\ semaphore = 0
    /\ counter = EmptyCounter
    /\ niter = 0
    /\ spc = "none"
    /\ task = <<>>
    /\ done = <<>>
    /\ escaped = "none"
    /\ jobs = {}

\* the steps of one batch: its tasks, its scheduler, the executor threads
BatchStep ==
    \/ \E i \in DOMAIN task : acquire(i)
    \/ \E i \in DOMAIN task, o \in PostOutcomes : post_done(i, o)
    \/ \E i \in DOMAIN task, j \in JsonOutcomes : json_done(i, j)
    \/ \E i \in DOMAIN task : return_Result(i)
    \/ tally
    \/ run_until_complete
    \/ \E job \in jobs : executor_author(job)
    \/ \E job \in jobs : executor_query(job)

\* a client calls call_author_many
Next == call_author_many \/ BatchStep

Spec == Init /\ [][Next]_vars

\* a client constructs an ElasticSearchBookService and calls run_query_list
NextQ == run_query_list \/ execute \/ BatchStep

SpecQ == InitQ /\ [][NextQ]_vars

\* a client calls schedule_services with a service of its own
NextG ==
    \/ call_service_many
    \/ \E i \in DOMAIN task, out \in ServiceOutcomes : service_done(i, out)
    \/ tally
    \/ run_until_complete

SpecG == Init /\ [][NextG]_vars

\* The event loop runs every callback that is ready, every remote call comes
\* back or fails, and the pool threads run the jobs they were given.
Fairness ==
    /\ WF_vars(\E i \in DOMAIN task : acquire(i))
    /\ WF_vars(\E i \in DOMAIN task, o \in PostOutcomes : post_done(i, o))
    /\ WF_vars(\E i \in DOMAIN task, j \in JsonOutcomes : json_done(i, j))
    /\ WF_vars(\E i \in DOMAIN task : return_Result(i))
    /\ WF_vars(tally)
    /\ WF_vars(run_until_complete)
    /\ WF_vars(\E job \in jobs : executor_author(job))
    /\ WF_vars(\E job \in jobs : executor_query(job))

\* a client calls call_author_many, and the batch is run fairly
SpecFair == Init /\ [][Next]_vars /\ Fairness

\* ------------------------------------------------------------------ claims
Records == docs[Batch]

Ended == spc \in {"returned", "raised"}

Tallied == counter["ok"] + counter["not_found"] + counter["error"]

Enriched(i) == {"author", "query"} \subseteq DOMAIN Records[i]

Untouched(i) == {"author", "query"} \cap DOMAIN Records[i] = {}

Finished(i) == task[i].pc \in {"returned", "raised"}

\* C1: once schedule_services has ended, every record of the list has been
\* tallied exactly once: ok + not_found + error equals the number of records,
\* whatever the remote calls came back with.
C1_TallyCountsEveryRecord == Ended => Tallied = Len(Records)

\* C2: at every moment of a batch with concurrency limit concur_req, at most
\* concur_req tasks have their remote call in flight.
C2_InFlightAtMostConcurReq == Cardinality(InFlight) <= concur_req

\* C2 witness: every slot is taken by a call in flight while another task
\* still waits for one.
C2_AllSlotsBusyOneWaiting ==
    /\ loop = "running"
    /\ Cardinality(InFlight) = concur_req
    /\ \E i \in DOMAIN task : task[i].pc = "created"

\* C3: no failure of a record's remote call ends the batch: schedule_services
\* never ends with an exception.
C3_NoFailureEndsTheBatch == spc # "raised"

\* C4: after a batch has returned, a record has the author and query fields
\* if and only if its outcome was ok, and has neither of them otherwise.
C4_FieldsIffOk ==
    spc = "returned" =>
        \A i \in DOMAIN task :
            /\ task[i].result = "ok" <=> Enriched(i)
            /\ task[i].result # "ok" => Untouched(i)

\* C5: when every remote call of a batch fails with a connection failure, the
\* batch ends with the tally {ok: 0, not_found: 0, error: N}.
C5_ConnectFailuresTalliedAsError ==
    ( /\ Ended
      /\ \A i \in DOMAIN task : task[i].resp.kind \in {"none", "ClientConnectorError"} )
    => counter = [s \in HTTPStatus |-> IF s = "error" THEN Len(Records) ELSE 0]

\* C6: three records with concurrency 2, the first and the third succeed and
\* the second is not found: the batch ends with the tally {ok: 2,
\* not_found: 1, error: 0}, the first and the third record have author and
\* query, the second has neither.
C6_NotFoundCountedOnce ==
    ( /\ Ended
      /\ Len(Records) = 3
      /\ concur_req = 2
      /\ \A i \in {1, 3} : task[i].result = "ok" /\ ~data_KeyError(task[i].data)
      /\ task[2].resp.kind = "response"
      /\ task[2].resp.status = 404 )
    => /\ counter = [s \in HTTPStatus |-> IF s = "ok" THEN 2 ELSE IF s = "not_found" THEN 1 ELSE 0]
       /\ Enriched(1)
       /\ Enriched(3)
       /\ Untouched(2)

\* C7: when the record list of a term has been fetched, no enrichment merge
\* started for an earlier term is still to be done.
C7_MergesDoneBeforeNextTerm == \A job \in jobs : job.b = Batch

\* C8: whenever a task has reported ok for its record, the record's author
\* and query fields are already written.
C8_MergeBeforeOk ==
    \A i \in DOMAIN task : task[i].result = "ok" => Enriched(i)

\* C9: whatever the remote calls come back with, run_query_list ends by
\* returning a list with one element per query term, in the order of the
\* terms, the element at index k being the record list fetched for term k.
C9_OneListPerTermInOrder ==
    rpc \in {"returned", "raised"} =>
        /\ rpc = "returned"
        /\ Len(result) = Len(query_list)
        /\ \A k \in DOMAIN result : result[k] = k

\* C10: every acquire of a slot is matched by exactly one release on every
\* exit path: the free slots never exceed the capacity, the slots taken are
\* exactly those of the calls in flight, and the free slots equal the
\* capacity once every task of the batch has finished.
C10_AcquireMatchedByRelease ==
    /\ semaphore <= concur_req
    /\ semaphore + Cardinality(InFlight) = concur_req
    /\ (\A i \in DOMAIN task : Finished(i)) => semaphore = concur_req

\* C10 witness: three tasks went through one slot, one of them left the with
\* block by an exception and one by a normal return, and the slot is free.
C10_AllFinishedSlotsFree ==
    /\ Len(task) = 3
    /\ concur_req = 1
    /\ \A i \in DOMAIN task : Finished(i)
    /\ \E i \in DOMAIN task : task[i].pc = "raised"
    /\ \E i \in DOMAIN task : task[i].result = "ok"
    /\ semaphore = concur_req

Range(q) == {q[k] : k \in DOMAIN q}

\* the status the task of record i stands for in the tally: the status of
\* its Result, or error when it raised
Outcome(i) == IF task[i].pc = "raised" THEN "error" ELSE task[i].result

\* the records whose task has been taken from the queue and tallied
Consumed == {i \in DOMAIN task : Finished(i) /\ i \notin Range(done)}

\* C11: the tally depends on the results of the records alone, not on the
\* place of a record in the list nor on the order in which the tasks
\* finish: as long as no exception has left the loop, each count is the
\* number of consumed records with that outcome.
C11_TallyIsCountOfOutcomes ==
    spc \in {"waiting", "returned"} =>
        \A s \in HTTPStatus :
            counter[s] = Cardinality({i \in Consumed : Outcome(i) = s})

\* C11 witness: three records with three different outcomes, the second
\* finished and tallied first, the third finished before the first.
C11_TalliedOutOfListOrder ==
    /\ spc = "waiting"
    /\ Len(task) = 3
    /\ done = <<3, 1>>
    /\ Consumed = {2}
    /\ {Outcome(i) : i \in DOMAIN task} = HTTPStatus
    /\ Tallied = 1

\* C12: the handling of a FetchError never fails itself: whatever the cause
\* of the FetchError, also none, no error of the message extraction leaves
\* schedule_services.
C12_ExtractionNeverEscapes == escaped # "AttributeError"

\* the bodies response.json() can parse
ParsedBodies == {j.data : j \in {b \in JsonOutcomes : b.parses}}

\* C13, the responses: a 200 yields the parsed body (no exception is raised
\* on it, and once its body has been read the task has that body as data);
\* another status raises a ResponseError with the status code, the reason
\* and the headers of the response.
ResponsesClassified(t) ==
    /\ (t.resp.kind = "response" /\ t.resp.status = 200 /\ t.pc = "json")
           => t.exc = NoExc
    /\ (t.resp.kind = "response" /\ t.resp.status = 200 /\ t.pc # "json")
           => /\ t.exc = NoExc
              /\ t.pc \in {"submitted", "returned"}
              /\ t.data \in ParsedBodies
    /\ (t.resp.kind = "response" /\ t.resp.status # 200)
           => /\ t.exc.cls = "ClientResponseError"
              /\ t.exc.code = t.resp.status
              /\ t.exc.message[2] = t.resp.reason
              /\ t.exc.headers = t.resp.headers

\* C13: a 200 yields the parsed body, another status fails with a
\* ResponseError carrying code, reason and headers, and a connection failure
\* fails with a ConnectionError carrying the underlying cause.
C13_FailuresClassifiedByKind ==
    \A i \in DOMAIN task :
        /\ ResponsesClassified(task[i])
        /\ task[i].resp.kind = "ClientConnectorError"
               => /\ task[i].exc.cls = "ConnectionError"
                  /\ "ClientConnectorError" \in {task[i].exc.cause, task[i].exc.wraps}

\* C14: for each record one task is launched and it makes exactly one
\* remote call attempt, whatever the outcome: once the batch has ended, every
\* record has had one POST, none was retried and none was skipped.
C14_OneAttemptPerRecord ==
    Ended => (Len(task) = Len(Records) /\ \A i \in DOMAIN task : task[i].posts = 1)

\* C15: a task holds a slot only while its remote call is in flight: the
\* step that takes the slot sends the task's one POST, and the step in which
\* the task hands the merge to the executor or reports its outcome has given
\* the slot back.
C15_SlotHeldOnlyInFlight ==
    [][\A i \in DOMAIN task :
          (i \in DOMAIN task' /\ task'[i] # task[i] /\ docs' = docs) =>
             /\ (task[i].pc = "created" /\ task'[i].pc = "post")
                    => (semaphore' = semaphore - 1 /\ task'[i].posts = 1)
             /\ (task[i].pc = "post" /\ task'[i].pc = "json")
                    => (semaphore' = semaphore /\ task'[i].posts = 1)
             /\ (task[i].pc \in {"post", "json"} /\ task'[i].pc \notin {"post", "json"})
                    => (semaphore' = semaphore + 1
                        /\ (Finished(i)' \/ task'[i].pc = "submitted"))
             /\ task[i].pc = "submitted"
                    => (semaphore' = semaphore /\ Finished(i)')
             /\ Finished(i) => Finished(i)'
      ]_vars

\* C15 witness: with one slot, a task has handed its merge to the executor
\* and reported ok, the merge is not done yet, and the slot is already with
\* the next task.
C15_MergePendingSlotPassedOn ==
    /\ concur_req = 1
    /\ \E i, k \in DOMAIN task :
          /\ task[i].result = "ok"
          /\ \E job \in jobs : job.b = Batch /\ job.i = i
          /\ task[k].pc = "post"

\* the jobs in the executor that write record i of batch b
JobsOf(b, i) == {job \in jobs : job.b = b /\ job.i = i}

\* C19: a step that changes a record adds author or query to it and leaves
\* its other fields as they were, is a step of the one job submitted for
\* that record, and changes no other record; a job is submitted by the task
\* of the record it writes; no record ever has two jobs.
C19_MergeWritesOwnRecordOnly ==
    /\ [](\A b \in DOMAIN docs : \A i \in DOMAIN docs[b] : Cardinality(JobsOf(b, i)) <= 1)
    /\ [][ /\ \A b \in DOMAIN docs : \A i \in DOMAIN docs[b] :
                docs'[b][i] # docs[b][i] =>
                   /\ DOMAIN docs[b][i] \subseteq DOMAIN docs'[b][i]
                   /\ \A k \in DOMAIN docs[b][i] : docs'[b][i][k] = docs[b][i][k]
                   /\ \E job \in JobsOf(b, i) :
                          \/ /\ job.line = 32
                             /\ DOMAIN docs'[b][i] = DOMAIN docs[b][i] \cup {"author"}
                             /\ jobs' = (jobs \ {job}) \cup {[job EXCEPT !.line = 33]}
                          \/ /\ job.line = 33
                             /\ DOMAIN docs'[b][i] = DOMAIN docs[b][i] \cup {"query"}
                             /\ jobs' = jobs \ {job}
                   /\ \A c \in DOMAIN docs : \A j \in DOMAIN docs[c] :
                          <<c, j>> # <<b, i>> => docs'[c][j] = docs[c][j]
            /\ \A job \in {new \in jobs' \ jobs : new.line = 32} :
                   /\ job.b = Batch
                   /\ task[job.i].pc = "json"
                   /\ task'[job.i].pc = "submitted"
                   /\ \A k \in DOMAIN task : k # job.i => task'[k] = task[k]
          ]_vars

\* C19 witness: two records of one batch were reported ok; the merge of one
\* is done, with id and summary as fetched, the other is still as fetched.
C19_OneMergedOneNot ==
    \E i, j \in DOMAIN task :
        /\ task[i].result = "ok" /\ Enriched(i)
        /\ Records[i]["id"] = Source(Batch, i)["id"]
        /\ Records[i]["summary"] = Source(Batch, i)["summary"]
        /\ task[j].result = "ok" /\ Records[j] = Source(Batch, j)
        /\ JobsOf(Batch, j) # {}

\* C16: when the batch of a term has ended, by returning or by raising, and
\* run_until_complete has come back to call_author_many, its event loop is
\* closed.
C16_LoopClosedWhenBatchEnds == (Ended /\ loop # "running") => loop = "closed"

\* C17: in a batch started by run_query_list the calls in flight, together
\* with the calls the semaphore would still let in, are at most
\* DEFAULT_CONCUR_REQ.
C17_GateOfQueryBatchIsDefault ==
    (rpc = "call_author_many" /\ loop = "running")
        => Cardinality(InFlight) + semaphore <= DEFAULT_CONCUR_REQ

\* C18: under fair scheduling, with every remote call coming back, a batch
\* that waits for its tasks leads to every task having taken a slot and
\* finished and the scheduler run having ended.
C18_EveryTaskFinishes ==
    (spc = "waiting") ~> (Ended /\ \A i \in DOMAIN task : task[i].posts = 1 /\ Finished(i))
=============================================================================
